---- MODULE Spec2Model ----
(***************************************************************************)
(* A model of btfparse's BTF decoder (btfparse/src/btf.cpp): the           *)
(* constructor BTF::BTF, which detects the byte order, reads the file      *)
(* header and walks the type section, the twelve per-kind decoders and     *)
(* the string resolver, all acting on one byte source with one cursor.     *)
(*                                                                         *)
(* A 32-bit word w is carried as the integer of -2^31 .. 2^31-1 that is    *)
(* congruent to w modulo 2^32 (TLC's integers are 32 bits wide):           *)
(* a word with bit 31 set is carried as w - 2^32.  Masks and shifts are    *)
(* written with % and \div, which floor, so they extract the same bits.    *)
(***************************************************************************)
EXTENDS Integers, Sequences, FiniteSets, TLC

VARIABLES
    file,             \* the bytes of the opened file (IFileReader's data)
    strictSeek,       \* whether this byte source refuses a seek past the end
    cursor,           \* IFileReader: the current offset
    endianness,       \* IFileReader: TRUE when reads are little-endian
    pc,               \* position in BTF::BTF
    little_endian,    \* BTF::BTF: the flag detectEndianness writes
    btf_header,       \* BTF::BTF: the header readBTFHeader returned
    current_offset,   \* parseTypeSection: offset at the start of the iteration
    btf_type_header,  \* parseTypeSection: the type header of the iteration
    parser,           \* parseTypeSection: the decoder kBTFParserMap found
    btf_type_list,    \* parseTypeSection: the list being accumulated
    d,                \* BTF::PrivateData: the list the constructor stores
    error,            \* the BTFError the constructor throws
    str_offset,       \* parseString called on its own: its argument
    str_output        \* parseString called on its own: what it returned

vars == <<file, strictSeek, cursor, endianness, pc, little_endian, btf_header,
          current_offset, btf_type_header, parser, btf_type_list, d, error,
          str_offset, str_output>>

-----------------------------------------------------------------------------
(* Constants of btf.h and of the BTF format. *)

kBTFTypeHeaderSize == 12
kIntBTFTypeSize == 4
kLittleEndianMagicValue == 60319
kBigEndianMagicValue == 40939

BTFKind_Int == 1
BTFKind_Ptr == 2
BTFKind_Array == 3
BTFKind_Struct == 4
BTFKind_Union == 5
BTFKind_Enum == 6
BTFKind_Fwd == 7
BTFKind_Typedef == 8
BTFKind_Volatile == 9
BTFKind_Const == 10
BTFKind_Func == 12
BTFKind_FuncProto == 13

-----------------------------------------------------------------------------
(* 32-bit words. *)

Pow16 == 65536
Pow24 == 16777216

\* The word whose bytes are b0 (least significant) .. b3 (most significant).
Word(b0, b1, b2, b3) ==
    (IF b3 >= 128 THEN b3 - 256 ELSE b3) * Pow24 + b2 * Pow16 + b1 * 256 + b0

\* Byte i (0 = least significant) of a word.
ByteOf(w, i) ==
    CASE i = 0 -> w % 256
      [] i = 1 -> (w \div 256) % 256
      [] i = 2 -> (w \div Pow16) % 256
      [] i = 3 -> (w \div Pow24) % 256

\* std::uint32_t addition: the sum modulo 2^32, computed in 16-bit halves.
Add32(a, b) ==
    LET lo == (a % Pow16) + (b % Pow16)
        hi == (((a \div Pow16) % Pow16) + ((b \div Pow16) % Pow16)
                  + (lo \div Pow16)) % Pow16
    IN  (IF hi >= 32768 THEN hi - Pow16 ELSE hi) * Pow16 + (lo % Pow16)

\* A 32-bit word widened to the std::uint64_t offset of seek().  Every offset
\* from 2^31 - 1 on lies beyond the end of every file of the model and is
\* carried as FarOffset.
FarOffset == 2147483647
OffsetOf(w) == IF w < 0 THEN FarOffset ELSE w

\* std::optional: the empty sequence, or the value in a sequence of one.
None == <<>>
Some(x) == <<x>>

-----------------------------------------------------------------------------
(* Sequencing.  Bind(v, F) is F(v) with v evaluated once: the statements of *)
(* the code run in order, each on the result of the one before.             *)

Bind(v, F(_)) == CHOOSE y \in {F(x) : x \in {v}} : TRUE

-----------------------------------------------------------------------------
(* The byte source (IFileReader).  A read or a seek that fails throws a     *)
(* FileReaderError and leaves the cursor where it was.                      *)

FileRange(o, n) == [offset |-> o, size |-> n]

ReadFailure(c, n) ==
    [ok |-> FALSE, cur |-> c,
     err |-> [code |-> "IOError", opt_read_operation |-> Some(FileRange(c, n))]]

seek(c, o) ==
    IF strictSeek /\ o > Len(file)
    THEN [ok |-> FALSE, cur |-> c,
          err |-> [code |-> "IOError", opt_read_operation |-> None]]
    ELSE [ok |-> TRUE, cur |-> o]

u8(c) ==
    IF c <= Len(file) - 1
    THEN [ok |-> TRUE, val |-> file[c + 1], cur |-> c + 1]
    ELSE ReadFailure(c, 1)

u16(c, le) ==
    IF c <= Len(file) - 2
    THEN [ok |-> TRUE, cur |-> c + 2,
          val |-> IF le THEN file[c + 1] + 256 * file[c + 2]
                        ELSE file[c + 2] + 256 * file[c + 1]]
    ELSE ReadFailure(c, 2)

u32(c, le) ==
    IF c <= Len(file) - 4
    THEN [ok |-> TRUE, cur |-> c + 4,
          val |-> IF le THEN Word(file[c + 1], file[c + 2], file[c + 3], file[c + 4])
                        ELSE Word(file[c + 4], file[c + 3], file[c + 2], file[c + 1])]
    ELSE ReadFailure(c, 4)

\* A run of reads of the given widths (1, 2 or 4 bytes) in order: the values
\* read, or the failure of the first read that throws.
RECURSIVE ReadFields(_, _, _, _)
ReadFields(c, le, widths, vals) ==
    IF widths = <<>> THEN [ok |-> TRUE, val |-> vals, cur |-> c]
    ELSE Bind(CASE Head(widths) = 1 -> u8(c)
                [] Head(widths) = 2 -> u16(c, le)
                [] Head(widths) = 4 -> u32(c, le),
              LAMBDA r :
                IF r.ok
                THEN Bind([cur |-> r.cur, rest |-> Tail(widths),
                           vals |-> Append(vals, r.val)],
                          LAMBDA a : ReadFields(a.cur, le, a.rest, a.vals))
                ELSE r)

-----------------------------------------------------------------------------
(* BTF::convertFileReaderError *)

BTFErr(code, range) == [code |-> code, range |-> range]

convertFileReaderError(e) ==
    BTFErr(CASE e.code = "Unknown" -> "Unknown"
             [] e.code = "MemoryAllocationFailure" -> "MemoryAllocationFailure"
             [] e.code = "FileNotFound" -> "FileNotFound"
             [] e.code = "IOError" -> "IOError",
           IF e.opt_read_operation # None
           THEN Some(FileRange(e.opt_read_operation[1].offset,
                               e.opt_read_operation[1].size))
           ELSE None)

Ok(v, c) == [ok |-> TRUE, val |-> v, cur |-> c]
Failed(e, c) == [ok |-> FALSE, err |-> e, cur |-> c]

\* catch (const FileReaderError &error) { return convertFileReaderError(error); }
Caught(r) == IF r.ok THEN r ELSE Failed(convertFileReaderError(r.err), r.cur)

-----------------------------------------------------------------------------
(* BTF::parseString *)

\* The for (;;) of parseString: bytes from the cursor up to the first 0.
RECURSIVE ReadString(_, _)
ReadString(c, buffer) ==
    Bind(u8(c), LAMBDA r :
        IF ~r.ok THEN r
        ELSE IF r.val = 0 THEN Ok(buffer, r.cur)
        ELSE Bind(Append(buffer, r.val), LAMBDA b : ReadString(r.cur, b)))

\* The try block of parseString: the seek and the read loop.
StringAt(c, offset) ==
    Bind(seek(c, offset), LAMBDA s :
        IF s.ok THEN ReadString(s.cur, <<>>) ELSE s)

\* parseString without the final seek back.
parseStringNoRestore(c, offset) ==
    Bind(StringAt(c, offset), LAMBDA body : Caught(body))

parseString(c, offset) ==
    Bind(StringAt(c, offset), LAMBDA body :
    Bind(seek(body.cur, c), LAMBDA back :
        IF body.ok THEN Ok(body.val, back.cur)
        ELSE Failed(convertFileReaderError(body.err), back.cur)))

\* The absolute offset of a name: hdr_len + str_off + name_off, in 32 bits.
NameOffset(hdr, name_off) ==
    OffsetOf(Add32(Add32(hdr.hdr_len, hdr.str_off), name_off))

-----------------------------------------------------------------------------
(* BTF::parseTypeHeader *)

parseTypeHeader(c, le) ==
    Bind(ReadFields(c, le, <<4, 4, 4>>, <<>>), LAMBDA r :
        IF r.ok
        THEN Ok([name_off |-> r.val[1],
                 vlen |-> r.val[2] % Pow16,
                 kind |-> (r.val[2] \div Pow24) % 32,
                 kind_flag |-> r.val[2] < 0,
                 size_or_type |-> r.val[3]], r.cur)
        ELSE Caught(r))

-----------------------------------------------------------------------------
(* The per-kind decoders.  Each takes the file header, the type header, the *)
(* cursor (just behind the type header) and the byte order, and returns a   *)
(* decoded type or an error, with the cursor it leaves.                     *)

\* The byte range with the cursor of entry as its offset.
DecoderFileRangeAtCursor(c) ==
    Some(FileRange(c, kBTFTypeHeaderSize + kIntBTFTypeSize))

\* The byte range every decoder computes on entry.
DecoderFileRange(c) ==
    Some(FileRange(c - kBTFTypeHeaderSize, kBTFTypeHeaderSize + kIntBTFTypeSize))

Invalid(code, c, at) == Failed(BTFErr(code, DecoderFileRange(c)), at)

\* parseIntData: the number of flags set among signed, char and bool.
IntEncodingFlagCount(encoding) ==
    (IF encoding % 2 # 0 THEN 1 ELSE 0)
      + (IF (encoding \div 2) % 2 # 0 THEN 1 ELSE 0)
      + (IF (encoding \div 4) % 2 # 0 THEN 1 ELSE 0)

\* The width checks with the limit size * 8 excluded.
IntBitsFitExclusive(bits, offset, size) ==
    /\ ~(bits > 128 \/ bits >= size * 8)
    /\ ~(offset + bits >= size * 8)

\* parseIntData: the checks of the bit width and of the bit offset.
IntBitsFit(bits, offset, size) ==
    /\ ~(bits > 128 \/ bits > size * 8)
    /\ ~(offset + bits > size * 8)

\* parseIntData behind the read of the encoding word.
IntOutput(name, integer_info, size, entry, c) ==
    Bind([encoding |-> (integer_info \div Pow24) % 16,
          bits |-> integer_info % 256,
          offset |-> (integer_info \div Pow16) % 256], LAMBDA o :
        IF IntEncodingFlagCount(o.encoding) > 1
        THEN Invalid("InvalidIntBTFTypeEncoding", entry, c)
        ELSE IF ~IntBitsFit(o.bits, o.offset, size)
        THEN Invalid("InvalidIntBTFTypeEncoding", entry, c)
        ELSE Ok([tag |-> "Int", name |-> name,
                 is_signed |-> o.encoding % 2 # 0,
                 is_char |-> (o.encoding \div 2) % 2 # 0,
                 is_bool |-> (o.encoding \div 4) % 2 # 0,
                 bits |-> o.bits, offset |-> o.offset], c))

parseIntData(hdr, th, c, le) ==
    IF th.kind_flag \/ th.vlen # 0
    THEN Invalid("InvalidIntBTFTypeEncoding", c, c)
    ELSE IF th.size_or_type \notin {1, 2, 4, 8, 16}
    THEN Invalid("InvalidIntBTFTypeEncoding", c, c)
    ELSE Bind(parseString(c, NameOffset(hdr, th.name_off)), LAMBDA name_res :
         IF ~name_res.ok THEN name_res
         ELSE Bind(u32(name_res.cur, le), LAMBDA info :
              IF ~info.ok THEN Caught(info)
              ELSE IntOutput(name_res.val, info.val, th.size_or_type, c, info.cur)))

\* parsePtrData leaving the cursor in front of the entry's type header.
parsePtrDataRewinds(hdr, th, c, le) ==
    IF th.name_off # 0 \/ th.kind_flag \/ th.vlen # 0
    THEN Invalid("InvalidPtrBTFTypeEncoding", c, c)
    ELSE Ok([tag |-> "Ptr", type |-> th.size_or_type], c - kBTFTypeHeaderSize)

parsePtrData(hdr, th, c, le) ==
    IF th.name_off # 0 \/ th.kind_flag \/ th.vlen # 0
    THEN Invalid("InvalidPtrBTFTypeEncoding", c, c)
    ELSE Ok([tag |-> "Ptr", type |-> th.size_or_type], c)

parseConstData(hdr, th, c, le) ==
    IF th.name_off # 0 \/ th.kind_flag \/ th.vlen # 0
    THEN Invalid("InvalidPtrBTFTypeEncoding", c, c)
    ELSE Ok([tag |-> "Const", type |-> th.size_or_type], c)

parseVolatileData(hdr, th, c, le) ==
    IF th.name_off # 0 \/ th.kind_flag \/ th.vlen # 0
    THEN Invalid("InvalidVolatileBTFTypeEncoding", c, c)
    ELSE Ok([tag |-> "Volatile", type |-> th.size_or_type], c)

parseArrayData(hdr, th, c, le) ==
    IF th.name_off # 0 \/ th.kind_flag \/ th.vlen # 0 \/ th.size_or_type # 0
    THEN Invalid("InvalidArrayBTFTypeEncoding", c, c)
    ELSE Bind(ReadFields(c, le, <<4, 4, 4>>, <<>>), LAMBDA r :
         IF ~r.ok THEN Caught(r)
         ELSE Ok([tag |-> "Array", type |-> r.val[1], index_type |-> r.val[2],
                  nelems |-> r.val[3]], r.cur))

parseTypedefData(hdr, th, c, le) ==
    IF th.name_off = 0 \/ th.kind_flag \/ th.vlen # 0
    THEN Invalid("InvalidTypedefBTFTypeEncoding", c, c)
    ELSE Bind(parseString(c, NameOffset(hdr, th.name_off)), LAMBDA name_res :
         IF ~name_res.ok THEN name_res
         ELSE Ok([tag |-> "Typedef", name |-> name_res.val], name_res.cur))

parseFwdData(hdr, th, c, le) ==
    IF th.name_off = 0 \/ th.vlen # 0 \/ th.size_or_type # 0
    THEN Invalid("InvalidFwdBTFTypeEncoding", c, c)
    ELSE Bind(parseString(c, NameOffset(hdr, th.name_off)), LAMBDA name_res :
         IF ~name_res.ok THEN name_res
         ELSE Ok([tag |-> "Fwd", name |-> name_res.val, is_union |-> th.kind_flag],
                 name_res.cur))

parseFuncData(hdr, th, c, le) ==
    IF th.name_off = 0 \/ th.kind_flag \/ th.vlen # 0
    THEN Invalid("InvalidFuncBTFTypeEncoding", c, c)
    ELSE Bind(parseString(c, NameOffset(hdr, th.name_off)), LAMBDA name_res :
         IF ~name_res.ok THEN name_res
         ELSE Ok([tag |-> "Func", name |-> name_res.val, type |-> th.size_or_type],
                 name_res.cur))

\* static_cast<std::int32_t> of a word: the number whose two's complement
\* bytes are the bytes of the word.
Int32(w) == Word(ByteOf(w, 0), ByteOf(w, 1), ByteOf(w, 2), ByteOf(w, 3))

\* OptName on a string resolver that leaves the cursor behind the string.
OptNameNoRestore(hdr, c, name_off) ==
    IF name_off # 0
    THEN Bind(parseStringNoRestore(c, NameOffset(hdr, name_off)), LAMBDA res :
              IF res.ok THEN Ok(Some(res.val), res.cur) ELSE res)
    ELSE Ok(None, c)

\* An optional name: resolved when the offset read is not 0.
OptName(hdr, c, name_off) ==
    IF name_off # 0
    THEN Bind(parseString(c, NameOffset(hdr, name_off)), LAMBDA res :
              IF res.ok THEN Ok(Some(res.val), res.cur) ELSE res)
    ELSE Ok(None, c)

\* parseEnumData: the loop over the enumerators, n of them still to read;
\* entry is the cursor the decoder was entered with.
RECURSIVE EnumValues(_, _, _, _, _, _)
EnumValues(hdr, entry, c, le, n, value_list) ==
    IF n = 0 THEN Ok(value_list, c)
    ELSE Bind(u32(c, le), LAMBDA value_name_off :
         IF ~value_name_off.ok THEN Caught(value_name_off)
         ELSE IF value_name_off.val = 0
         THEN Invalid("InvalidEnumBTFTypeEncoding", entry, value_name_off.cur)
         ELSE Bind(parseString(value_name_off.cur,
                               NameOffset(hdr, value_name_off.val)),
                   LAMBDA value_name_res :
              IF ~value_name_res.ok THEN value_name_res
              ELSE Bind(u32(value_name_res.cur, le), LAMBDA val :
                   IF ~val.ok THEN Caught(val)
                   ELSE Bind([cur |-> val.cur, n |-> n - 1,
                              list |-> Append(value_list,
                                              [name |-> value_name_res.val,
                                               val |-> Int32(val.val)])],
                             LAMBDA a :
                               EnumValues(hdr, entry, a.cur, le, a.n, a.list)))))

\* parseEnumData without the test for an empty enumeration.
parseEnumDataAcceptsEmpty(hdr, th, c, le) ==
    IF th.kind_flag
    THEN Invalid("InvalidEnumBTFTypeEncoding", c, c)
    ELSE IF th.size_or_type \notin {1, 2, 4, 8}
    THEN Invalid("InvalidEnumBTFTypeEncoding", c, c)
    ELSE Bind(OptName(hdr, c, th.name_off), LAMBDA name_res :
         IF ~name_res.ok THEN name_res
         ELSE Bind(EnumValues(hdr, c, name_res.cur, le, th.vlen, <<>>),
                   LAMBDA values :
              IF ~values.ok THEN values
              ELSE Ok([tag |-> "Enum", opt_name |-> name_res.val,
                       value_list |-> values.val], values.cur)))

parseEnumData(hdr, th, c, le) ==
    IF th.kind_flag \/ th.vlen = 0
    THEN Invalid("InvalidEnumBTFTypeEncoding", c, c)
    ELSE IF th.size_or_type \notin {1, 2, 4, 8}
    THEN Invalid("InvalidEnumBTFTypeEncoding", c, c)
    ELSE Bind(OptName(hdr, c, th.name_off), LAMBDA name_res :
         IF ~name_res.ok THEN name_res
         ELSE Bind(EnumValues(hdr, c, name_res.cur, le, th.vlen, <<>>),
                   LAMBDA values :
              IF ~values.ok THEN values
              ELSE Ok([tag |-> "Enum", opt_name |-> name_res.val,
                       value_list |-> values.val], values.cur)))

\* parseFuncProtoData: the loop over the parameters, n of them still to read.
RECURSIVE FuncProtoParams(_, _, _, _, _)
FuncProtoParams(hdr, c, le, n, param_list) ==
    IF n = 0 THEN Ok(param_list, c)
    ELSE Bind(u32(c, le), LAMBDA param_name_off :
         IF ~param_name_off.ok THEN Caught(param_name_off)
         ELSE Bind(OptName(hdr, param_name_off.cur, param_name_off.val),
                   LAMBDA param_name_res :
              IF ~param_name_res.ok THEN param_name_res
              ELSE Bind(u32(param_name_res.cur, le), LAMBDA type :
                   IF ~type.ok THEN Caught(type)
                   ELSE Bind([cur |-> type.cur, n |-> n - 1,
                              list |-> Append(param_list,
                                              [opt_name |-> param_name_res.val,
                                               type |-> type.val])],
                             LAMBDA a :
                               FuncProtoParams(hdr, a.cur, le, a.n, a.list)))))

\* FuncProtoBTFType output: the variadic member of a default-constructed
\* prototype (its default member initialiser).
DefaultVariadic == FALSE

\* The sentinel test applied to the first parameter instead of the last.
DropVariadicSentinelFirst(param_list) ==
    IF param_list # <<>> /\ param_list[1].opt_name = None /\ param_list[1].type = 0
    THEN [param_list |-> Tail(param_list), variadic |-> TRUE]
    ELSE [param_list |-> param_list, variadic |-> DefaultVariadic]

\* parseFuncProtoData: a last parameter without name and of type 0 is dropped
\* and makes the prototype variadic.
DropVariadicSentinel(param_list) ==
    IF param_list # <<>>
       /\ param_list[Len(param_list)].opt_name = None
       /\ param_list[Len(param_list)].type = 0
    THEN [param_list |-> SubSeq(param_list, 1, Len(param_list) - 1),
          variadic |-> TRUE]
    ELSE [param_list |-> param_list, variadic |-> DefaultVariadic]

parseFuncProtoData(hdr, th, c, le) ==
    IF th.name_off # 0 \/ th.kind_flag
    THEN Invalid("InvalidFuncProtoBTFTypeEncoding", c, c)
    ELSE Bind(FuncProtoParams(hdr, c, le, th.vlen, <<>>), LAMBDA params :
         IF ~params.ok THEN params
         ELSE Bind(DropVariadicSentinel(params.val), LAMBDA output :
              Ok([tag |-> "FuncProto", param_list |-> output.param_list,
                  variadic |-> output.variadic], params.cur)))

\* parseStructOrUnionData: the loop over the members, n of them still to read.
\* Each member is read into a local object that no list receives.
RECURSIVE StructMembers(_, _, _, _)
StructMembers(hdr, c, le, n) ==
    IF n = 0 THEN Ok(<<>>, c)
    ELSE Bind(u32(c, le), LAMBDA member_name_off :
         IF ~member_name_off.ok THEN Caught(member_name_off)
         ELSE Bind(OptName(hdr, member_name_off.cur, member_name_off.val),
                   LAMBDA member_name_res :
              IF ~member_name_res.ok THEN member_name_res
              ELSE Bind(ReadFields(member_name_res.cur, le, <<4, 4>>, <<>>),
                        LAMBDA rest :
                   IF ~rest.ok THEN Caught(rest)
                   ELSE Bind([cur |-> rest.cur, n |-> n - 1], LAMBDA a :
                             StructMembers(hdr, a.cur, le, a.n)))))

parseStructOrUnionData(tag, hdr, th, c, le) ==
    Bind(OptName(hdr, c, th.name_off), LAMBDA name_res :
        IF ~name_res.ok THEN name_res
        ELSE Bind(StructMembers(hdr, name_res.cur, le, th.vlen), LAMBDA members :
             IF ~members.ok THEN members
             ELSE Ok([tag |-> tag, size |-> th.size_or_type,
                      opt_name |-> name_res.val,
                      member_list |-> members.val], members.cur)))

parseStructData(hdr, th, c, le) == parseStructOrUnionData("Struct", hdr, th, c, le)

parseUnionData(hdr, th, c, le) == parseStructOrUnionData("Union", hdr, th, c, le)

-----------------------------------------------------------------------------
(* kBTFParserMap and the call through it. *)

SupportedKinds ==
    {BTFKind_Int, BTFKind_Ptr, BTFKind_Const, BTFKind_Array, BTFKind_Typedef,
     BTFKind_Enum, BTFKind_FuncProto, BTFKind_Volatile, BTFKind_Struct,
     BTFKind_Union, BTFKind_Fwd, BTFKind_Func}

\* A lookup that answers the Int decoder for a kind the map does not hold.
kBTFParserMapDefaultInt(kind) ==
    CASE kind = BTFKind_Ptr -> "parsePtrData"
      [] kind = BTFKind_Const -> "parseConstData"
      [] kind = BTFKind_Array -> "parseArrayData"
      [] kind = BTFKind_Typedef -> "parseTypedefData"
      [] kind = BTFKind_Enum -> "parseEnumData"
      [] kind = BTFKind_FuncProto -> "parseFuncProtoData"
      [] kind = BTFKind_Volatile -> "parseVolatileData"
      [] kind = BTFKind_Struct -> "parseStructData"
      [] kind = BTFKind_Union -> "parseUnionData"
      [] kind = BTFKind_Fwd -> "parseFwdData"
      [] kind = BTFKind_Func -> "parseFuncData"
      [] OTHER -> "parseIntData"

\* kBTFParserMap.find(kind): the decoder's name, or "end" when there is none.
kBTFParserMap(kind) ==
    CASE kind = BTFKind_Int -> "parseIntData"
      [] kind = BTFKind_Ptr -> "parsePtrData"
      [] kind = BTFKind_Const -> "parseConstData"
      [] kind = BTFKind_Array -> "parseArrayData"
      [] kind = BTFKind_Typedef -> "parseTypedefData"
      [] kind = BTFKind_Enum -> "parseEnumData"
      [] kind = BTFKind_FuncProto -> "parseFuncProtoData"
      [] kind = BTFKind_Volatile -> "parseVolatileData"
      [] kind = BTFKind_Struct -> "parseStructData"
      [] kind = BTFKind_Union -> "parseUnionData"
      [] kind = BTFKind_Fwd -> "parseFwdData"
      [] kind = BTFKind_Func -> "parseFuncData"
      [] OTHER -> "end"

\* parser(btf_header, btf_type_header, file_reader)
CallParser(p, hdr, th, c, le) ==
    CASE p = "parseIntData" -> parseIntData(hdr, th, c, le)
      [] p = "parsePtrData" -> parsePtrData(hdr, th, c, le)
      [] p = "parseConstData" -> parseConstData(hdr, th, c, le)
      [] p = "parseArrayData" -> parseArrayData(hdr, th, c, le)
      [] p = "parseTypedefData" -> parseTypedefData(hdr, th, c, le)
      [] p = "parseEnumData" -> parseEnumData(hdr, th, c, le)
      [] p = "parseFuncProtoData" -> parseFuncProtoData(hdr, th, c, le)
      [] p = "parseVolatileData" -> parseVolatileData(hdr, th, c, le)
      [] p = "parseStructData" -> parseStructData(hdr, th, c, le)
      [] p = "parseUnionData" -> parseUnionData(hdr, th, c, le)
      [] p = "parseFwdData" -> parseFwdData(hdr, th, c, le)
      [] p = "parseFuncData" -> parseFuncData(hdr, th, c, le)

-----------------------------------------------------------------------------
(* BTF::detectEndianness and BTF::readBTFHeader.  mode is the byte order    *)
(* the byte source is left in.                                              *)

\* detectEndianness with the two answers exchanged.
detectEndiannessSwapped(c, mode) ==
    Bind(seek(c, 0), LAMBDA s :
        IF ~s.ok
        THEN [ok |-> FALSE, err |-> convertFileReaderError(s.err), cur |-> s.cur,
              mode |-> mode]
        ELSE Bind(u16(s.cur, TRUE), LAMBDA magic :
             IF ~magic.ok
             THEN [ok |-> FALSE, err |-> convertFileReaderError(magic.err),
                   cur |-> magic.cur, mode |-> TRUE]
             ELSE IF magic.val = kLittleEndianMagicValue
             THEN [ok |-> TRUE, little_endian |-> FALSE, cur |-> magic.cur,
                   mode |-> TRUE]
             ELSE IF magic.val = kBigEndianMagicValue
             THEN [ok |-> TRUE, little_endian |-> TRUE, cur |-> magic.cur,
                   mode |-> TRUE]
             ELSE [ok |-> FALSE, err |-> BTFErr("InvalidMagicValue", None),
                   cur |-> magic.cur, mode |-> TRUE]))

detectEndianness(c, mode) ==
    Bind(seek(c, 0), LAMBDA s :
        IF ~s.ok
        THEN [ok |-> FALSE, err |-> convertFileReaderError(s.err), cur |-> s.cur,
              mode |-> mode]
        ELSE Bind(u16(s.cur, TRUE), LAMBDA magic :
             IF ~magic.ok
             THEN [ok |-> FALSE, err |-> convertFileReaderError(magic.err),
                   cur |-> magic.cur, mode |-> TRUE]
             ELSE IF magic.val = kLittleEndianMagicValue
             THEN [ok |-> TRUE, little_endian |-> TRUE, cur |-> magic.cur,
                   mode |-> TRUE]
             ELSE IF magic.val = kBigEndianMagicValue
             THEN [ok |-> TRUE, little_endian |-> FALSE, cur |-> magic.cur,
                   mode |-> TRUE]
             ELSE [ok |-> FALSE, err |-> BTFErr("InvalidMagicValue", None),
                   cur |-> magic.cur, mode |-> TRUE]))

readBTFHeader(c, le) ==
    Bind(seek(c, 0), LAMBDA s :
        IF ~s.ok THEN Caught(s)
        ELSE Bind(ReadFields(s.cur, le, <<2, 1, 1, 4, 4, 4, 4, 4>>, <<>>), LAMBDA r :
             IF ~r.ok THEN Caught(r)
             ELSE Ok([magic |-> r.val[1], version |-> r.val[2], flags |-> r.val[3],
                      hdr_len |-> r.val[4], type_off |-> r.val[5],
                      type_len |-> r.val[6], str_off |-> r.val[7],
                      str_len |-> r.val[8]], r.cur)))

\* parseTypeSection: the two offsets that delimit the type section.
type_section_start_offset == Add32(btf_header.hdr_len, btf_header.type_off)
type_section_end_offset == Add32(type_section_start_offset, btf_header.type_len)

-----------------------------------------------------------------------------
(* The steps of the constructor BTF::BTF. *)

NoHeader ==
    [magic |-> 0, version |-> 0, flags |-> 0, hdr_len |-> 0, type_off |-> 0,
     type_len |-> 0, str_off |-> 0, str_len |-> 0]

\* The constructor's call of detectEndianness.
Detect ==
    /\ pc = "detectEndianness"
    /\ \E r \in {detectEndianness(cursor, endianness)} :
           /\ cursor' = r.cur
           /\ endianness' = r.mode
           /\ little_endian' = IF r.ok THEN r.little_endian ELSE little_endian
           /\ pc' = IF r.ok THEN "setEndianness" ELSE "failed"
           /\ error' = IF r.ok THEN error ELSE Some(r.err)
    /\ UNCHANGED <<file, strictSeek, btf_header, current_offset, btf_type_header,
                   parser, btf_type_list, d,
                   str_offset, str_output>>

\* The constructor skipping its setEndianness call.
SetEndiannessSkipped ==
    /\ pc = "setEndianness"
    /\ pc' = "readBTFHeader"
    /\ UNCHANGED <<file, strictSeek, cursor, endianness, little_endian, btf_header,
                   current_offset, btf_type_header, parser, btf_type_list, d, error,
                   str_offset, str_output>>

\* file_reader->setEndianness(little_endian)
SetEndianness ==
    /\ pc = "setEndianness"
    /\ endianness' = little_endian
    /\ pc' = "readBTFHeader"
    /\ UNCHANGED <<file, strictSeek, cursor, little_endian, btf_header,
                   current_offset, btf_type_header, parser, btf_type_list, d, error,
                   str_offset, str_output>>

\* The constructor's call of readBTFHeader.
ReadHeader ==
    /\ pc = "readBTFHeader"
    /\ \E r \in {readBTFHeader(cursor, endianness)} :
           /\ cursor' = r.cur
           /\ btf_header' = IF r.ok THEN r.val ELSE btf_header
           /\ pc' = IF r.ok THEN "parseTypeSection" ELSE "failed"
           /\ error' = IF r.ok THEN error ELSE Some(r.err)
    /\ UNCHANGED <<file, strictSeek, endianness, little_endian, current_offset,
                   btf_type_header, parser, btf_type_list, d,
                   str_offset, str_output>>

\* parseTypeSection up to its loop: the seek to the start of the section.
BeginTypeSection ==
    /\ pc = "parseTypeSection"
    /\ \E s \in {seek(cursor, OffsetOf(type_section_start_offset))} :
           /\ cursor' = s.cur
           /\ pc' = IF s.ok THEN "loop" ELSE "failed"
           /\ error' = IF s.ok THEN error ELSE Some(convertFileReaderError(s.err))
    /\ btf_type_list' = <<>>
    /\ UNCHANGED <<file, strictSeek, endianness, little_endian, btf_header,
                   current_offset, btf_type_header, parser, d,
                   str_offset, str_output>>

\* a >= b for two 32-bit words taken as unsigned numbers.
UnsignedGe(a, b) == IF (a < 0) = (b < 0) THEN a >= b ELSE a < 0

\* current_offset >= type_section_end_offset.  A cursor carried as FarOffset
\* is where the seek to the start of the section left it.
LoopBreaks ==
    IF cursor >= FarOffset
    THEN UnsignedGe(type_section_start_offset, type_section_end_offset)
    ELSE cursor >= OffsetOf(type_section_end_offset)

\* One iteration of the loop of parseTypeSection that does not break: the
\* type header, the lookup of the decoder and the decoder's call.
Iteration(c) ==
    Bind(parseTypeHeader(c, endianness), LAMBDA h :
        IF ~h.ok
        THEN [ok |-> FALSE, err |-> h.err, cur |-> h.cur, header |-> None,
              parser |-> "none"]
        ELSE Bind(kBTFParserMap(h.val.kind), LAMBDA p :
             IF p = "end"
             THEN [ok |-> FALSE, cur |-> h.cur, header |-> Some(h.val),
                   parser |-> p,
                   err |-> BTFErr("InvalidBTFKind",
                                  Some(FileRange(c, kBTFTypeHeaderSize)))]
             ELSE Bind(CallParser(p, btf_header, h.val, h.cur, endianness),
                       LAMBDA r :
                  IF ~r.ok
                  THEN [ok |-> FALSE, err |-> r.err, cur |-> r.cur,
                        header |-> Some(h.val), parser |-> p]
                  ELSE [ok |-> TRUE, val |-> r.val, cur |-> r.cur,
                        header |-> Some(h.val), parser |-> p])))

ParseEntry ==
    /\ pc = "loop"
    /\ ~LoopBreaks
    /\ \E it \in {Iteration(cursor)} :
           /\ current_offset' = cursor
           /\ cursor' = it.cur
           /\ btf_type_header' = it.header
           /\ parser' = it.parser
           /\ btf_type_list' = IF it.ok THEN Append(btf_type_list, it.val)
                               ELSE btf_type_list
           /\ pc' = IF it.ok THEN "loop" ELSE "failed"
           /\ error' = IF it.ok THEN error ELSE Some(it.err)
    /\ UNCHANGED <<file, strictSeek, endianness, little_endian, btf_header, d,
                   str_offset, str_output>>

\* The break of the loop, the return of the list and its move into d.
EndTypeSection ==
    /\ pc = "loop"
    /\ LoopBreaks
    /\ current_offset' = cursor
    /\ d' = btf_type_list
    /\ pc' = "done"
    /\ UNCHANGED <<file, strictSeek, cursor, endianness, little_endian, btf_header,
                   btf_type_header, parser, btf_type_list, error,
                   str_offset, str_output>>

Next ==
    \/ Detect
    \/ SetEndianness
    \/ ReadHeader
    \/ BeginTypeSection
    \/ ParseEntry
    \/ EndTypeSection

-----------------------------------------------------------------------------
(* The files the constructor is run on. *)

\* The four bytes of a word in the file's byte order.
Encode32(w, le) ==
    IF le THEN <<ByteOf(w, 0), ByteOf(w, 1), ByteOf(w, 2), ByteOf(w, 3)>>
    ELSE <<ByteOf(w, 3), ByteOf(w, 2), ByteOf(w, 1), ByteOf(w, 0)>>

RECURSIVE EncodeWords(_, _)
EncodeWords(ws, le) ==
    IF ws = <<>> THEN <<>> ELSE Encode32(Head(ws), le) \o EncodeWords(Tail(ws), le)

\* The info word of a type header.
InfoWord(kind, vlen, kind_flag) ==
    (IF kind_flag THEN kind - 128 ELSE kind) * Pow24 + vlen

\* A type entry: its header fields and the words of its payload.
Entry(name_off, kind, vlen, kind_flag, size_or_type, payload) ==
    [name_off |-> name_off, kind |-> kind, vlen |-> vlen, kind_flag |-> kind_flag,
     size_or_type |-> size_or_type, payload |-> payload]

EncodeEntry(e, le) ==
    EncodeWords(<<e.name_off, InfoWord(e.kind, e.vlen, e.kind_flag), e.size_or_type>>
                  \o e.payload, le)

RECURSIVE EncodeEntries(_, _)
EncodeEntries(es, le) ==
    IF es = <<>> THEN <<>>
    ELSE EncodeEntry(Head(es), le) \o EncodeEntries(Tail(es), le)

\* The string table: "" at 0, "a" at 1, "bc" at 3, "c" at 4.
StringTable == <<0, 97, 0, 98, 99, 0>>

HeaderLength == 24

\* A file: the header, then the type section and the string table, the
\* string table first when strFirst.  The header declares delta bytes more
\* than the type section has, and the file lacks its last cut bytes.
BuildFile(le, es, strFirst, delta, cut) ==
    Bind(EncodeEntries(es, le), LAMBDA section :
    Bind((IF le THEN <<159, 235>> ELSE <<235, 159>>) \o <<1, 0>>
           \o EncodeWords(<<HeaderLength,
                            IF strFirst THEN Len(StringTable) ELSE 0,
                            Len(section) + delta,
                            IF strFirst THEN 0 ELSE Len(section),
                            Len(StringTable)>>, le)
           \o (IF strFirst THEN StringTable \o section ELSE section \o StringTable),
         LAMBDA whole : SubSeq(whole, 1, Len(whole) - cut)))

\* The state after IFileReader::open, before detectEndianness.
Opened ==
    /\ strictSeek \in BOOLEAN
    /\ cursor = 0
    /\ endianness \in BOOLEAN
    /\ pc = "detectEndianness"
    /\ little_endian = FALSE
    /\ btf_header = NoHeader
    /\ current_offset = 0
    /\ btf_type_header = None
    /\ parser = "none"
    /\ btf_type_list = <<>>
    /\ d = <<>>
    /\ error = None
    /\ str_offset = 0
    /\ str_output = None

\* The encoding word of an Int: flags in bits 24-27, offset in bits 16-23,
\* width in bits 0-7.
IntInfo(encoding, offset, bits) == encoding * Pow24 + offset * Pow16 + bits

\* Entries every decoder accepts, one of each kind.
GoodEntries ==
    { Entry(1, BTFKind_Int, 0, FALSE, 4, <<IntInfo(1, 0, 32)>>),
      Entry(0, BTFKind_Ptr, 0, FALSE, 1, <<>>),
      Entry(0, BTFKind_Const, 0, FALSE, 2, <<>>),
      Entry(0, BTFKind_Volatile, 0, FALSE, 2, <<>>),
      Entry(0, BTFKind_Array, 0, FALSE, 0, <<1, 1, 3>>),
      Entry(3, BTFKind_Struct, 2, FALSE, 8, <<1, 1, 0, 0, 2, 32>>),
      Entry(0, BTFKind_Union, 1, TRUE, 4, <<4, 1, 0>>),
      Entry(1, BTFKind_Enum, 2, FALSE, 4, <<1, 0, 3, -1>>),
      Entry(0, BTFKind_FuncProto, 2, FALSE, 1, <<1, 1, 0, 0>>),
      Entry(1, BTFKind_Typedef, 0, FALSE, 1, <<>>),
      Entry(1, BTFKind_Fwd, 0, TRUE, 0, <<>>),
      Entry(3, BTFKind_Func, 0, FALSE, 7, <<>>) }

\* Entries of a kind without decoder, entries a decoder rejects, and entries
\* whose names lie outside the file.
BadEntries ==
    { Entry(0, 0, 0, FALSE, 0, <<>>),
      Entry(0, 11, 0, FALSE, 1, <<>>),
      Entry(1, 14, 1, FALSE, 4, <<>>),
      Entry(0, 31, 0, TRUE, 0, <<>>),
      Entry(1, BTFKind_Int, 0, FALSE, 3, <<IntInfo(0, 0, 8)>>),
      Entry(1, BTFKind_Int, 0, FALSE, 4, <<IntInfo(0, 25, 8)>>),
      Entry(1, BTFKind_Ptr, 0, FALSE, 1, <<>>),
      Entry(0, BTFKind_Const, 1, FALSE, 1, <<>>),
      Entry(0, BTFKind_Volatile, 0, TRUE, 1, <<>>),
      Entry(0, BTFKind_Array, 0, FALSE, 1, <<1, 1, 3>>),
      Entry(1, BTFKind_Enum, 0, FALSE, 4, <<>>),
      Entry(0, BTFKind_Enum, 1, FALSE, 4, <<0, 7>>),
      Entry(1, BTFKind_FuncProto, 0, FALSE, 1, <<>>),
      Entry(0, BTFKind_Typedef, 0, FALSE, 1, <<>>),
      Entry(1, BTFKind_Fwd, 0, FALSE, 1, <<>>),
      Entry(0, BTFKind_Func, 0, FALSE, 1, <<>>),
      Entry(100, BTFKind_Struct, 0, FALSE, 8, <<>>),
      Entry(0, BTFKind_Union, 1, FALSE, 8, <<-1, 1, 0>>),
      Entry(100, BTFKind_Typedef, 0, FALSE, 1, <<>>) }

\* Entries that may stand in front of another entry.
LeadingEntries ==
    { e \in GoodEntries :
        e.kind \in {BTFKind_Int, BTFKind_Ptr, BTFKind_Struct, BTFKind_Enum} }

\* The largest number of entries of a type section.
MaxEntries == 2

RECURSIVE LeadingSeqs(_)
LeadingSeqs(n) ==
    IF n = 0 THEN {<<>>}
    ELSE {Append(p, e) : p \in LeadingSeqs(n - 1), e \in LeadingEntries}

\* Type sections: leading entries followed by any one entry, or empty.
Sections ==
    {<<>>} \cup
    UNION {{Append(p, e) : p \in LeadingSeqs(n), e \in GoodEntries \cup BadEntries} :
             n \in 0 .. MaxEntries - 1}

\* The layouts and damages of a file: the string table in front of the type
\* section or behind it, a declared length of the type section that differs
\* from its true length, bytes missing at the end of the file.
Shape(strFirst, delta, cut) == [strFirst |-> strFirst, delta |-> delta, cut |-> cut]

Shapes ==
    { Shape(FALSE, 0, 0), Shape(TRUE, 0, 0),
      Shape(FALSE, -1, 0), Shape(FALSE, 1, 0), Shape(TRUE, 1, 0),
      Shape(FALSE, 0, 1), Shape(TRUE, 0, 1),
      Shape(FALSE, 0, Len(StringTable) + 1) }

Files ==
    {BuildFile(le, es, sh.strFirst,
               IF es = <<>> /\ sh.delta < 0 THEN 0 ELSE sh.delta, sh.cut) :
        le \in BOOLEAN, es \in Sections, sh \in Shapes}
      \cup {<<>>, <<159>>, <<159, 235>>, <<0, 0, 1, 0>>}

Init == file \in Files /\ Opened

Spec == Init /\ [][Next]_vars

-----------------------------------------------------------------------------
(* Files with one entry of one kind, for the decoders of Int, FuncProto and *)
(* Enum, and files that differ in their first two bytes.                    *)

IntEntries ==
    { Entry(name_off, BTFKind_Int, hv[2], hv[1], size, <<IntInfo(enc, off, bits)>>) :
        name_off \in {1, 100},
        hv \in {<<FALSE, 0>>, <<TRUE, 0>>, <<FALSE, 1>>},
        size \in {1, 3, 4, 16},
        enc \in {0, 1, 3, 4},
        off \in {0, 24, 25},
        bits \in {8, 32, 33, 128, 129} }

\* The file lacks its last byte: of the string table, or of the entry when
\* the string table comes first.
EntryShapes == {Shape(FALSE, 0, 0), Shape(TRUE, 0, 0), Shape(TRUE, 0, 1)}

IntFiles ==
    {BuildFile(le, <<e>>, sh.strFirst, sh.delta, sh.cut) :
        le \in BOOLEAN, e \in IntEntries, sh \in EntryShapes}

InitInt == file \in IntFiles /\ Opened

SpecInt == InitInt /\ [][Next]_vars

\* The largest number of parameter or enumerator records of an entry.
MaxRecords == 2

\* The payloads of exactly n records, each a pair of words out of a set.
RECURSIVE RecordRuns(_, _)
RecordRuns(records, n) ==
    IF n = 0 THEN {<<>>}
    ELSE {r \o p : r \in records, p \in RecordRuns(records, n - 1)}

\* Parameters: unnamed of type 0 (the sentinel), unnamed of type 5, "a" of
\* type 0, "bc" of type 5.
ParamRecords == {<<0, 0>>, <<0, 5>>, <<1, 0>>, <<3, 5>>}

FuncProtoEntries ==
    UNION {{Entry(0, BTFKind_FuncProto, n, FALSE, 1, p) :
              p \in RecordRuns(ParamRecords, n)} : n \in 0 .. MaxRecords}
      \cup { Entry(1, BTFKind_FuncProto, 1, FALSE, 1, <<0, 0>>),
             Entry(0, BTFKind_FuncProto, 1, TRUE, 1, <<0, 0>>) }

FuncProtoFiles ==
    {BuildFile(le, <<e>>, sh.strFirst, sh.delta, sh.cut) :
        le \in BOOLEAN, e \in FuncProtoEntries,
        sh \in EntryShapes \cup {Shape(FALSE, 0, 1)}}

InitFuncProto == file \in FuncProtoFiles /\ Opened

SpecFuncProto == InitFuncProto /\ [][Next]_vars

\* Enumerators: without name, "a" = 7, "c" = -1.
EnumRecords == {<<0, 7>>, <<1, 7>>, <<4, -1>>}

EnumEntries ==
    UNION {{Entry(name_off, BTFKind_Enum, vlen, kind_flag, size, p) :
              p \in RecordRuns(EnumRecords, n), vlen \in {0, n},
              name_off \in {0, 1}, kind_flag \in BOOLEAN, size \in {3, 4}} :
             n \in 0 .. MaxRecords}

EnumFiles ==
    {BuildFile(le, <<e>>, sh.strFirst, sh.delta, sh.cut) :
        le \in BOOLEAN, e \in EnumEntries,
        sh \in EntryShapes \cup {Shape(FALSE, 0, 1)}}

InitEnum == file \in EnumFiles /\ Opened

SpecEnum == InitEnum /\ [][Next]_vars

\* A little-endian file with one Int entry, the same file in big-endian
\* order, the former with each pair of bytes in the place of its first two,
\* and the files of less than two bytes.
MagicFiles ==
    Bind(BuildFile(TRUE, <<Entry(1, BTFKind_Int, 0, FALSE, 4, <<IntInfo(1, 0, 32)>>)>>,
                   FALSE, 0, 0),
         LAMBDA f : {<<b0, b1>> \o SubSeq(f, 3, Len(f)) :
                        b0 \in 0 .. 255, b1 \in 0 .. 255})
      \cup {BuildFile(FALSE, <<Entry(1, BTFKind_Int, 0, FALSE, 4,
                                     <<IntInfo(1, 0, 32)>>)>>, FALSE, 0, 0)}
      \cup {<<>>} \cup {<<b>> : b \in 0 .. 255}

InitMagic == file \in MagicFiles /\ Opened

SpecMagic == InitMagic /\ [][Next]_vars

-----------------------------------------------------------------------------
(* BTF::parseString called on its own, from any cursor, for any offset.     *)

\* The longest file parseString is called on.
MaxStringFile == 4

RECURSIVE ByteRuns(_)
ByteRuns(n) ==
    IF n = 0 THEN {<<>>}
    ELSE ByteRuns(n - 1)
           \cup {Append(q, b) : q \in {r \in ByteRuns(n - 1) : Len(r) = n - 1},
                                b \in {0, 97, 98}}

InitString ==
    /\ file \in ByteRuns(MaxStringFile)
    /\ strictSeek \in BOOLEAN
    /\ cursor \in 0 .. (IF strictSeek THEN Len(file) ELSE Len(file) + 1)
    /\ str_offset \in 0 .. Len(file) + 1 \cup {FarOffset}
    /\ str_output = None
    /\ pc = "parseString"
    /\ endianness \in BOOLEAN
    /\ little_endian = FALSE
    /\ btf_header = NoHeader
    /\ current_offset = 0
    /\ btf_type_header = None
    /\ parser = "none"
    /\ btf_type_list = <<>>
    /\ d = <<>>
    /\ error = None

CallParseString ==
    /\ pc = "parseString"
    /\ \E r \in {parseString(cursor, str_offset)} :
           /\ cursor' = r.cur
           /\ str_output' = Some(IF r.ok THEN [ok |-> TRUE, val |-> r.val]
                                 ELSE [ok |-> FALSE, err |-> r.err])
    /\ pc' = "returned"
    /\ UNCHANGED <<file, strictSeek, endianness, little_endian, btf_header,
                   current_offset, btf_type_header, parser, btf_type_list, d, error,
                   str_offset>>

NextString == CallParseString

SpecString == InitString /\ [][NextString]_vars

-----------------------------------------------------------------------------
(* BTF::parseTypeSection on headers of any kind: a type section that starts *)
(* inside the file, behind it or far behind it, of a declared length that   *)
(* is 0, short, exact, long or so large that start + length wraps.          *)

\* The word 0x80000000.
Bit31 == (-32768) * Pow16

\* The entries of these type sections: decoded with and without strings
\* resolved, of a kind without decoder, rejected by their decoder.
SectionEntries ==
    { Entry(0, BTFKind_Ptr, 0, FALSE, 1, <<>>),
      Entry(1, BTFKind_Int, 0, FALSE, 4, <<IntInfo(1, 0, 32)>>),
      Entry(1, BTFKind_Enum, 2, FALSE, 4, <<1, 0, 3, -1>>),
      Entry(0, 0, 0, FALSE, 0, <<>>),
      Entry(1, BTFKind_Enum, 0, FALSE, 4, <<>>) }

RECURSIVE EntrySeqs(_)
EntrySeqs(n) ==
    IF n = 0 THEN {<<>>}
    ELSE EntrySeqs(n - 1)
           \cup {Append(p, e) : p \in {q \in EntrySeqs(n - 1) : Len(q) = n - 1},
                                e \in SectionEntries}

\* A file: the header with the given type_off and type_len, the entries and
\* the string table.
SectionFile(le, es, type_off, type_len) ==
    Bind(EncodeEntries(es, le), LAMBDA section :
        (IF le THEN <<159, 235>> ELSE <<235, 159>>) \o <<1, 0>>
          \o EncodeWords(<<HeaderLength, type_off, type_len, Len(section),
                           Len(StringTable)>>, le)
          \o section \o StringTable)

SectionFiles ==
    {SectionFile(le, es, type_off, type_len) :
        le \in BOOLEAN, es \in EntrySeqs(MaxEntries),
        type_off \in {0, 1000, -1, Bit31},
        type_len \in {0, 12, 13, 1000, -1, Bit31}}

InitSection == file \in SectionFiles /\ Opened

\* The constructor runs to its end: no step of it waits for anything.
SpecSection == InitSection /\ [][Next]_vars /\ WF_vars(Next)

-----------------------------------------------------------------------------
(* What the claims speak of. *)

\* An iteration of the loop has just called a decoder (which returned a type
\* or an error): the header, the decoder and the offset are that entry's.
DecoderReturned == pc \in {"loop", "failed"} /\ parser \notin {"none", "end"}

\* An iteration of the loop has just decoded an entry.
Decoded == pc = "loop" /\ parser \notin {"none", "end"}

LastType == btf_type_list[Len(btf_type_list)]

\* Whether the file starts with the magic value in little-endian order.
FileIsLittleEndian == file[1] + 256 * file[2] = kLittleEndianMagicValue

\* The word at offset o of the file, in the file's byte order; o + 4 must
\* not exceed the length of the file.
WordAt(o) == u32(o, FileIsLittleEndian).val

\* The file holds a word at offset o.
HasWordAt(o) == o + 4 <= Len(file)

\* The offsets of the 0 bytes of the file at or behind offset o.
ZerosFrom(o) == {z \in o .. Len(file) - 1 : file[z + 1] = 0}

\* The file holds a 0-terminated string at offset o.
HasTextAt(o) == ZerosFrom(o) # {}

\* The bytes from offset o up to, and without, the first 0 byte.
TextAt(o) ==
    SubSeq(file, o + 1, CHOOSE z \in ZerosFrom(o) : \A y \in ZerosFrom(o) : z <= y)

\* The name a name offset read from the file denotes: none when it is 0.
NameOf(name_off) ==
    IF name_off = 0 THEN None ELSE Some(TextAt(NameOffset(btf_header, name_off)))

\* C1 as claimed: a Struct or Union entry just decoded has size_or_type as
\* its size and one member for each of its vlen 12-byte member records, in
\* order, with the record's name (absent when the name offset is 0), type ID
\* and raw offset.
C1_MembersDecoded ==
    (Decoded /\ LastType.tag \in {"Struct", "Union"}) =>
        /\ LastType.size = btf_type_header[1].size_or_type
        /\ Len(LastType.member_list) = btf_type_header[1].vlen
        /\ \A i \in 1 .. btf_type_header[1].vlen :
              LET rec == current_offset + kBTFTypeHeaderSize + 12 * (i - 1)
              IN  LastType.member_list[i] =
                      [opt_name |-> NameOf(WordAt(rec)),
                       type |-> WordAt(rec + 4),
                       offset |-> WordAt(rec + 8)]

\* C2 as claimed: parseTypeSection returns a list only when the entries it
\* consumed end where the declared length of the type section ends.
C2_LengthMismatchFails ==
    pc = "done" => cursor = OffsetOf(type_section_end_offset)

\* C8: an entry whose kind has no decoder fails the parse with InvalidBTFKind
\* over the 12 bytes of that entry's type header; no decoder is called and
\* the list decoded so far is not stored.
C8_UnsupportedKind ==
    (pc \in {"loop", "failed"} /\ btf_type_header # None
        /\ btf_type_header[1].kind \notin SupportedKinds) =>
        /\ pc = "failed"
        /\ error = Some(BTFErr("InvalidBTFKind",
                               Some(FileRange(current_offset, 12))))
        /\ parser = "end"
        /\ d = <<>>

\* C8's case: the second entry is of an unsupported kind and the first,
\* already decoded, is dropped.
C8_Witness ==
    /\ pc = "failed" /\ error[1].code = "InvalidBTFKind"
    /\ btf_type_header[1].kind = 14
    /\ Len(btf_type_list) = 1 /\ current_offset > type_section_start_offset

\* The invalid-encoding code each decoder answers with.
EncodingError(p) ==
    CASE p = "parseIntData" -> "InvalidIntBTFTypeEncoding"
      [] p = "parsePtrData" -> "InvalidPtrBTFTypeEncoding"
      [] p = "parseConstData" -> "InvalidPtrBTFTypeEncoding"
      [] p = "parseVolatileData" -> "InvalidVolatileBTFTypeEncoding"
      [] p = "parseArrayData" -> "InvalidArrayBTFTypeEncoding"
      [] p = "parseTypedefData" -> "InvalidTypedefBTFTypeEncoding"
      [] p = "parseEnumData" -> "InvalidEnumBTFTypeEncoding"
      [] p = "parseFuncProtoData" -> "InvalidFuncProtoBTFTypeEncoding"
      [] p = "parseFwdData" -> "InvalidFwdBTFTypeEncoding"
      [] p = "parseFuncData" -> "InvalidFuncBTFTypeEncoding"
      [] OTHER -> "InvalidStructOrUnionBTFTypeEncoding"

\* C9 as claimed: every failure of a decoder is the invalid-encoding error of
\* its kind, with a byte range that starts at the entry's type header.
C9_EveryFailureKindSpecific ==
    (DecoderReturned /\ pc = "failed") =>
        /\ error[1].code = EncodingError(parser)
        /\ error[1].range # None
        /\ error[1].range[1].offset = current_offset

\* C9 amended: a failure of a decoder is either the invalid-encoding error of
\* its kind (the Ptr one for Const, none for Struct and Union), with the byte
\* range (offset of the entry's type header, 12 + kIntBTFTypeSize) whatever
\* the kind, or the translated error of a read or seek that failed, with that
\* operation's own range if it has one.
C9_DecoderFailures ==
    (DecoderReturned /\ pc = "failed") =>
        \/ /\ error[1].code = EncodingError(parser)
           /\ parser \notin {"parseStructData", "parseUnionData"}
           /\ error[1].range =
                 Some(FileRange(current_offset,
                                kBTFTypeHeaderSize + kIntBTFTypeSize))
        \/ /\ error[1].code = "IOError"
           /\ \/ error[1].range = None
              \/ /\ error[1].range[1].size \in {1, 4}
                 /\ error[1].range[1].offset + error[1].range[1].size > Len(file)

\* C9's case: the decoder of a second entry, an Array, rejects its header.
C9_Witness ==
    /\ pc = "failed" /\ parser = "parseArrayData"
    /\ error[1].code = "InvalidArrayBTFTypeEncoding"
    /\ current_offset > type_section_start_offset

\* C10 as claimed: once detectEndianness has returned successfully the byte
\* source reads in the detected byte order.
C10_ModeAfterDetect ==
    pc = "setEndianness" => endianness = little_endian

\* C10 amended: from the constructor's setEndianness call on, so from the
\* read of the header on, the byte source reads in the detected byte order,
\* which is the byte order of the file.
C10_ModeFromHeaderRead ==
    pc \in {"readBTFHeader", "parseTypeSection", "loop", "done"} =>
        /\ endianness = little_endian
        /\ little_endian = FileIsLittleEndian

\* C10's case: a big-endian file about to have its header read.
C10_Witness ==
    pc = "readBTFHeader" /\ ~FileIsLittleEndian /\ ~endianness

\* C3: parseString leaves the cursor where it found it, whether it returns
\* the text (the bytes from the offset up to, and without, the first 0 byte)
\* or, the seek or a read having failed, a translated error.
C3_CursorRestored ==
    [][pc = "parseString" =>
          /\ cursor' = cursor
          /\ IF ~(strictSeek /\ str_offset > Len(file)) /\ HasTextAt(str_offset)
             THEN str_output' = Some([ok |-> TRUE, val |-> TextAt(str_offset)])
             ELSE /\ ~str_output'[1].ok
                  /\ str_output'[1].err.code = "IOError"]_vars

\* C3's case: a read ran off the end of the file, far from where the cursor
\* was, and the cursor is back.
C3_Witness ==
    /\ pc = "returned" /\ ~str_output[1].ok /\ str_output[1].err.range # None
    /\ str_offset = 1 /\ Len(file) = 3 /\ cursor = 0

\* The error codes the byte source's failures translate to.
ByteSourceCodes == {"Unknown", "MemoryAllocationFailure", "FileNotFound", "IOError"}

\* C4: detectEndianness answers little-endian for the magic value in
\* little-endian order, big-endian for the same two bytes exchanged, fails
\* with InvalidMagicValue and no byte range for every other pair of bytes,
\* and with a translated byte source error when there are less than two.
C4_Detection ==
    [][pc = "detectEndianness" =>
          IF Len(file) < 2
          THEN pc' = "failed" /\ error'[1].code \in ByteSourceCodes
          ELSE IF file[1] + 256 * file[2] = kLittleEndianMagicValue
          THEN pc' = "setEndianness" /\ little_endian' = TRUE /\ error' = None
          ELSE IF file[2] + 256 * file[1] = kLittleEndianMagicValue
          THEN pc' = "setEndianness" /\ little_endian' = FALSE /\ error' = None
          ELSE pc' = "failed"
                 /\ error' = Some(BTFErr("InvalidMagicValue", None))]_vars

\* C4's case: the big-endian magic value has been detected.
C4_Witness ==
    pc = "setEndianness" /\ file[1] = 235 /\ file[2] = 159 /\ ~little_endian

\* The Int decoder has just returned; what it was given.
IntReturned == DecoderReturned /\ parser = "parseIntData"

IntHeaderOk ==
    /\ ~btf_type_header[1].kind_flag
    /\ btf_type_header[1].vlen = 0
    /\ btf_type_header[1].size_or_type \in {1, 2, 4, 8, 16}

\* The conditions on an encoding word w for an Int of the given size: at
\* most one of bits 24, 25, 26; width at most 128 and 8 * size; offset +
\* width at most 8 * size.
IntEncodingOk(w, size) ==
    /\ (w \div Pow24) % 8 \in {0, 1, 2, 4}
    /\ w % 256 <= 128
    /\ w % 256 <= 8 * size
    /\ ((w \div Pow16) % 256) + (w % 256) <= 8 * size

IntWord == current_offset + kBTFTypeHeaderSize

IntFailedWith(code) == pc = "failed" /\ error[1].code = code

\* C5 as claimed: the Int decoder succeeds exactly when the header and the
\* encoding word meet the conditions, and fails with
\* InvalidIntBTFTypeEncoding on every other input.
C5_IntIffEncoding ==
    IntReturned =>
        /\ pc = "failed" => error[1].code = "InvalidIntBTFTypeEncoding"
        /\ HasWordAt(IntWord) =>
              (pc = "loop" <=>
                  /\ IntHeaderOk
                  /\ IntEncodingOk(WordAt(IntWord), btf_type_header[1].size_or_type))

\* C5 amended: a header that breaks kind_flag = false, vlen = 0, size in
\* {1, 2, 4, 8, 16} fails with InvalidIntBTFTypeEncoding; otherwise a name
\* that cannot be resolved or an encoding word that cannot be read fails
\* with the translated byte source error; otherwise the decoder succeeds
\* exactly when the encoding word meets the conditions, and fails with
\* InvalidIntBTFTypeEncoding when it does not.
C5_IntDecoding ==
    IntReturned =>
        IF ~IntHeaderOk THEN IntFailedWith("InvalidIntBTFTypeEncoding")
        ELSE IF ~HasTextAt(NameOffset(btf_header, btf_type_header[1].name_off))
                  \/ ~HasWordAt(IntWord)
        THEN IntFailedWith("IOError")
        ELSE IF IntEncodingOk(WordAt(IntWord), btf_type_header[1].size_or_type)
        THEN pc = "loop"
        ELSE IntFailedWith("InvalidIntBTFTypeEncoding")

\* C5's case: size 4, width 8, offset 24, at the limit, is accepted.
C5_Witness ==
    /\ IntReturned /\ pc = "loop"
    /\ btf_type_header[1].size_or_type = 4
    /\ LastType.bits = 8 /\ LastType.offset = 24

\* Parameter record i of the FuncProto entry just decoded, and the
\* parameter it denotes.
ParamAt(i) == current_offset + kBTFTypeHeaderSize + 8 * (i - 1)

ParamOf(i) ==
    [opt_name |-> NameOf(WordAt(ParamAt(i))), type |-> WordAt(ParamAt(i) + 4)]

\* C6: the parameters of a decoded FuncProto are its vlen records in order,
\* without the last when that one has name offset 0 and type ID 0, which is
\* exactly when the result is variadic; no other record is dropped.
C6_FuncProtoVariadic ==
    (Decoded /\ parser = "parseFuncProtoData") =>
        LET vlen == btf_type_header[1].vlen
            sentinel == /\ vlen > 0
                        /\ WordAt(ParamAt(vlen)) = 0
                        /\ WordAt(ParamAt(vlen) + 4) = 0
        IN  /\ LastType.variadic = sentinel
            /\ LastType.param_list =
                  [i \in 1 .. (IF sentinel THEN vlen - 1 ELSE vlen) |-> ParamOf(i)]

\* C6's case: two sentinel records, of which only the last is dropped.
C6_Witness ==
    /\ Decoded /\ parser = "parseFuncProtoData"
    /\ btf_type_header[1].vlen = 2
    /\ LastType.variadic
    /\ LastType.param_list = <<[opt_name |-> None, type |-> 0]>>

\* Enumerator record i of the Enum entry the decoder was called on.
EnumAt(i) == current_offset + kBTFTypeHeaderSize + 8 * (i - 1)

\* The decoder can read record i and resolve its name, which is not 0.
EnumRecordReads(i) ==
    /\ HasWordAt(EnumAt(i))
    /\ WordAt(EnumAt(i)) # 0
    /\ HasTextAt(NameOffset(btf_header, WordAt(EnumAt(i))))
    /\ HasWordAt(EnumAt(i) + 4)

EnumHeaderOk ==
    /\ ~btf_type_header[1].kind_flag
    /\ btf_type_header[1].vlen > 0
    /\ btf_type_header[1].size_or_type \in {1, 2, 4, 8}
    /\ \/ btf_type_header[1].name_off = 0
       \/ HasTextAt(NameOffset(btf_header, btf_type_header[1].name_off))

\* C7: the Enum decoder fails with InvalidEnumBTFTypeEncoding when vlen is
\* 0, whatever the other fields, and when it comes to an enumerator record
\* whose name offset is 0; when it succeeds the header is valid and the
\* values are the vlen records in order, each a name and the signed 32-bit
\* value of its second word.
C7_EnumDecoding ==
    (DecoderReturned /\ parser = "parseEnumData") =>
        /\ btf_type_header[1].vlen = 0 =>
              (pc = "failed" /\ error[1].code = "InvalidEnumBTFTypeEncoding")
        /\ (/\ EnumHeaderOk
            /\ \E z \in 1 .. btf_type_header[1].vlen :
                  /\ \A j \in 1 .. z - 1 : EnumRecordReads(j)
                  /\ HasWordAt(EnumAt(z)) /\ WordAt(EnumAt(z)) = 0) =>
              (pc = "failed" /\ error[1].code = "InvalidEnumBTFTypeEncoding")
        /\ pc = "loop" =>
              /\ EnumHeaderOk
              /\ LastType.value_list =
                    [i \in 1 .. btf_type_header[1].vlen |->
                        [name |-> TextAt(NameOffset(btf_header, WordAt(EnumAt(i)))),
                         val |-> WordAt(EnumAt(i) + 4)]]

\* C7's case: the second of two enumerator records has name offset 0.
C7_Witness ==
    /\ pc = "failed" /\ parser = "parseEnumData"
    /\ error[1].code = "InvalidEnumBTFTypeEncoding"
    /\ EnumHeaderOk /\ btf_type_header[1].vlen = 2
    /\ EnumRecordReads(1) /\ WordAt(EnumAt(2)) = 0

\* The bytes an entry has behind its 12-byte type header, by its kind.
Payload(kind, vlen) ==
    CASE kind = BTFKind_Int -> 4
      [] kind = BTFKind_Array -> 12
      [] kind \in {BTFKind_Enum, BTFKind_FuncProto} -> 8 * vlen
      [] kind \in {BTFKind_Struct, BTFKind_Union} -> 12 * vlen
      [] OTHER -> 0

\* The type header the file holds at offset o, taken from its three words.
HeaderAt(o) ==
    [name_off |-> WordAt(o),
     vlen |-> WordAt(o + 4) % Pow16,
     kind |-> (WordAt(o + 4) \div Pow24) % 32,
     kind_flag |-> WordAt(o + 4) < 0,
     size_or_type |-> WordAt(o + 8)]

\* The offset of the k-th entry of the type section when the entries lie
\* one behind the other from the start of the section.
RECURSIVE EntryAt(_)
EntryAt(k) ==
    IF k = 1 THEN type_section_start_offset
    ELSE LET o == EntryAt(k - 1)
         IN  o + kBTFTypeHeaderSize + Payload(HeaderAt(o).kind, HeaderAt(o).vlen)

\* The decoding of the k-th entry of the section, on its own.
DecodingAt(k) ==
    CallParser(kBTFParserMap(HeaderAt(EntryAt(k)).kind), btf_header,
               HeaderAt(EntryAt(k)), EntryAt(k) + kBTFTypeHeaderSize,
               FileIsLittleEndian)

\* C11: after every entry decoded the cursor is the offset of the entry's
\* type header + 12 + the payload of its kind (4 for Int, 12 for Array,
\* 8 * vlen for Enum and FuncProto, 12 * vlen for Struct and Union, 0 for
\* the others), however many strings were resolved; so the next header is
\* read where the entry ends, and the k-th element of the list, also of the
\* list returned, is the decoding of the k-th entry of the section.
C11_CursorContinuity ==
    /\ Decoded =>
          cursor = current_offset + kBTFTypeHeaderSize
                     + Payload(btf_type_header[1].kind, btf_type_header[1].vlen)
    /\ pc = "loop" =>
          /\ cursor = EntryAt(Len(btf_type_list) + 1)
          /\ \A k \in 1 .. Len(btf_type_list) :
                DecodingAt(k).ok /\ btf_type_list[k] = DecodingAt(k).val
    /\ pc = "done" =>
          \A k \in 1 .. Len(d) : DecodingAt(k).ok /\ d[k] = DecodingAt(k).val

\* C11's case: an Enum with two resolved names in front of a Struct with a
\* resolved name and two member records, both decoded.
C11_Witness ==
    /\ pc = "loop" /\ Len(btf_type_list) = 2
    /\ btf_type_list[1].tag = "Enum" /\ Len(btf_type_list[1].value_list) = 2
    /\ btf_type_list[2].tag = "Struct"
    /\ cursor = current_offset + 36

\* parseTypeSection has returned: the header was read and the constructor
\* is at its end or has thrown.
SectionReturned == pc \in {"done", "failed"} /\ btf_header # NoHeader

\* C12 as claimed: parseTypeSection returns, every iteration that returns
\* no error moves the cursor on by 12 bytes or more, and a section with
\* type_len = 0 gives an empty list without a type header being read.
C12_EmptySectionEmptyList ==
    /\ [][(pc = "loop" /\ pc' = "loop") =>
             cursor' >= cursor + kBTFTypeHeaderSize]_vars
    /\ <>(pc \in {"done", "failed"})
    /\ [](SectionReturned /\ btf_header.type_len = 0 =>
             pc = "done" /\ d = <<>> /\ btf_type_header = None)

\* C12 amended: parseTypeSection returns, with the list or with an error;
\* every iteration that returns no error moves the cursor on by 12 bytes
\* or more; and a section with type_len = 0 to whose start the byte source
\* can seek gives an empty list without a type header being read, while one
\* to whose start it cannot seek fails with the translated error of the
\* seek, also without a type header being read.
C12_Terminates ==
    /\ [][(pc = "loop" /\ pc' = "loop") =>
             cursor' >= cursor + kBTFTypeHeaderSize]_vars
    /\ <>(pc \in {"done", "failed"})
    /\ [](SectionReturned /\ btf_header.type_len = 0 =>
             /\ btf_type_header = None
             /\ IF strictSeek /\ OffsetOf(type_section_start_offset) > Len(file)
                THEN pc = "failed" /\ error[1].code \in ByteSourceCodes
                ELSE pc = "done" /\ d = <<>>)

\* C12's case: two iterations have moved the cursor past the declared end
\* of the section, and the list of the two entries is returned.
C12_Witness ==
    /\ pc = "done" /\ Len(d) = 2
    /\ cursor > OffsetOf(type_section_end_offset)

====
